---- MODULE Spec2Model ----
(***************************************************************************)
(* Da-P_Satulon: the 2D cellular automaton (code/ca_2d/grid.py) and the    *)
(* critical exponent monitor (monitoring/critical_exponent_monitor.py).    *)
(*                                                                         *)
(* Real numbers are exact fixed-point integers:                            *)
(*   - a cell value x in [0,1] is the integer x * Unit;                    *)
(*   - an interaction strength rho is the integer rho * RhoDen.            *)
(* Unit is a multiple of (4*RhoDen)^MaxSteps, so the blend                 *)
(*   old*(1-rho) + (sum of 4 neighbours)/4 * rho                           *)
(* is computed without rounding for MaxSteps consecutive steps.            *)
(* numpy arrays are heap objects: a variable holds an address, .copy()     *)
(* allocates, and an assignment through a reference is seen by every       *)
(* holder of that reference.                                               *)
(***************************************************************************)
EXTENDS Integers, Sequences, FiniteSets, TLC

\* ------------------------------------------------------------------ bounds
\* largest number of update steps of one Grid between two (re)initialisations
MaxSteps == 2
\* the same, for each of the two Grids of SpecTwo
MaxStepsTwo == 1
\* rho is a multiple of 1/RhoDen
RhoDen == 2
\* an initial cell is a multiple of 1/CellLevels, in [0,1)
CellLevels == 4
\* number of states of the process-wide random generator
RngMod == 5
\* seeds are 0 .. NumSeeds-1
NumSeeds == 3

\* ------------------------------------------------------------- value sets
\* an absent optional argument; a present one is the one-element tuple <<x>>
None == <<>>

GridIds == {1, 2}

GridSizes == {<<3, 3>>, <<3, 4>>}

RECURSIVE Pow(_, _)
Pow(b, e) == IF e = 0 THEN 1 ELSE b * Pow(b, e - 1)

\* the integer that stands for the cell value 1.0
Unit == CellLevels * Pow(4 * RhoDen, MaxSteps)

\* interaction strengths a caller may pass or assign: -1/RhoDen .. 1 + 1/RhoDen
RhoInputs == (0 - 1)..(RhoDen + 1)

Seeds == 0..(NumSeeds - 1)

SeedInputs == {None} \cup {<<s>> : s \in Seeds}

\* the value the caller writes into an array it was handed
WriteValue == 0 - 999

MaxAddr == 2 * (MaxSteps + 2) + 2

Addr == 1..MaxAddr

\* ------------------------------------------------------------------- state
VARIABLES
    ca,      \* GridIds -> CA2D object (grid_size, interaction_strength, grid, history)
    heap,    \* Addr -> numpy array, or Free
    rng,     \* state of numpy's process-wide generator
    ret,     \* what the last get_state call handed to the caller
    steps,   \* GridIds -> number of _single_update calls since __init__ / reset
    seedOf,  \* GridIds -> the random_seed argument of the last __init__ / reset
    scan,         \* the series handed to _analyze_critical_behavior
    measurement,  \* the CriticalExponentMeasurement built from the analysis
    alerts,       \* the list check_alerts returned
    result,       \* outcome of the last library call: a value, or the exception raised
    run           \* the activation of measure_critical_exponents: position and locals

gridVars == <<ca, heap, rng, ret, steps, seedOf>>

monVars == <<scan, measurement, alerts, run>>

callVars == <<result>>

vars == <<ca, heap, rng, ret, steps, seedOf, scan, measurement, alerts, result, run>>

\* ---------------------------------------------------------- numpy arrays
Free == [shape |-> <<0, 0>>, cells |-> <<>>]

Cells(shape) == (0..(shape[1] - 1)) \X (0..(shape[2] - 1))

\* no object yet bound to the name
NoGrid == [grid_size |-> <<0, 0>>, interaction_strength |-> 0, grid |-> 0, history |-> <<>>]

NoRet == [kind |-> "none", addr |-> 0]

\* What a call gave back.  kind: "float", "array", "dict" or the name of the
\* exception raised; value: the float, or the sequence of floats of the
\* array; warned: warnings.warn was called.
Raised(exception) == [kind |-> exception, value |-> 0, warned |-> FALSE]

\* the first argument of a conductivity call: a list of arrays or one array
NoArg == [list |-> FALSE, arrays |-> <<>>]

\* The variable result: the call (op, method, arg) and what it gave back.
NoResult ==
    [op |-> "none", method |-> "", arg |-> NoArg,
     kind |-> "none", value |-> 0, warned |-> FALSE]

Outcome(op, method, arg, r) ==
    [op |-> op, method |-> method, arg |-> arg,
     kind |-> r.kind, value |-> r.value, warned |-> r.warned]

Constructed(g) == ca[g].grid # 0

Range(s) == {s[k] : k \in 1..Len(s)}

\* addresses reachable from the Grid objects c and from the caller's reference r
Reachable(c, r) ==
    UNION {{c[g].grid} \cup Range(c[g].history) : g \in GridIds}
        \cup (IF r.kind = "array" THEN {r.addr} ELSE {})

\* garbage collection: an array nobody references is freed
Collect(c, h, r) == [a \in Addr |-> IF a \in Reachable(c, r) THEN h[a] ELSE Free]

\* address of a newly allocated array
Alloc(h) == CHOOSE a \in Addr : h[a] = Free /\ \A b \in Addr : b < a => h[b] # Free

\* every reference held by the Grid objects c and the caller r, in a fixed order
RootSeq(c, r) ==
    LET OfGrid(g) == <<c[g].grid>> \o c[g].history
    IN OfGrid(1) \o OfGrid(2) \o <<r.addr>>

\* Addresses are not observable, so the live arrays are renumbered in the
\* order of RootSeq (a moving collector); shared references stay shared.
NewAddr(seq, a) ==
    IF a = 0 THEN 0
    ELSE LET first == CHOOSE k \in 1..Len(seq) : seq[k] = a /\ \A j \in 1..(k - 1) : seq[j] # a
         IN Cardinality({seq[j] : j \in 1..(first - 1)} \ {0}) + 1

Canon(c, h, r) ==
    LET seq == RootSeq(c, r)
        live == Range(seq) \ {0}
    IN [ca |-> [g \in GridIds |->
                  [c[g] EXCEPT !.grid = NewAddr(seq, @),
                               !.history = [k \in 1..Len(c[g].history) |->
                                               NewAddr(seq, c[g].history[k])]]],
        heap |-> [n \in Addr |->
                    IF \E a \in live : NewAddr(seq, a) = n
                    THEN h[CHOOSE a \in live : NewAddr(seq, a) = n]
                    ELSE Free],
        ret |-> [r EXCEPT !.addr = NewAddr(seq, @)]]

\* the state after an operation that left the objects c, the heap h and the
\* caller's reference r
Commit(c, h, r) ==
    LET n == Canon(c, h, r)
    IN /\ ca' = n.ca
       /\ heap' = n.heap
       /\ ret' = n.ret

\* ------------------------------------------------ numpy's global generator
\* the generator steps through its states (the Mersenne Twister, abstracted to a
\* deterministic state machine)
NextRng(s) == (s + 3) % RngMod

RECURSIVE RngAfter(_, _)
RngAfter(s, k) == IF k = 0 THEN s ELSE NextRng(RngAfter(s, k - 1))

\* np.random.seed(seed)
SeedRng(seed) == seed % RngMod

\* "if random_seed is not None: np.random.seed(random_seed)": the generator
\* state the array is then drawn from, s being the state before the call
SeededState_IgnoresSeed(seed, s) == s

SeededState(seed, s) == IF seed # None THEN SeedRng(seed[1]) ELSE s

\* one uniform sample in [0,1) read off the generator state
Sample(s) == (s % CellLevels) * (Unit \div CellLevels)

\* np.random.random(shape): cells are drawn in row-major order
RandomArray(shape, s) ==
    [shape |-> shape,
     cells |-> [p \in Cells(shape) |-> Sample(RngAfter(s, p[1] * shape[2] + p[2] + 1))]]

RngAfterArray(shape, s) == RngAfter(s, shape[1] * shape[2])

\* np.random.random(shape) raises ValueError on a negative dimension; a
\* dimension of 0 gives an array without cells
RandomRaises(shape) == shape[1] < 0 \/ shape[2] < 0

\* max(0.0, min(1.0, interaction_strength))
Clamp(v) ==
    LET m == IF v < RhoDen THEN v ELSE RhoDen
    IN IF m > 0 THEN m ELSE 0

\* -------------------------------------------------------------- CA2D code
\* _apply_boundary_conditions: four slice assignments, in this order
ApplyBoundaryConditions(arr, size) ==
    LET h == size[1]
        w == size[2]
        c0 == arr.cells
        c1 == [p \in DOMAIN c0 |-> IF p[1] = 0 THEN c0[<<1, p[2]>>] ELSE c0[p]]
        c2 == [p \in DOMAIN c1 |-> IF p[1] = h - 1 THEN c1[<<h - 2, p[2]>>] ELSE c1[p]]
        c3 == [p \in DOMAIN c2 |-> IF p[2] = 0 THEN c2[<<p[1], 1>>] ELSE c2[p]]
        c4 == [p \in DOMAIN c3 |-> IF p[2] = w - 1 THEN c3[<<p[1], w - 2>>] ELSE c3[p]]
    IN [arr EXCEPT !.cells = c4]

\* grid[1, :] and grid[:, 1] must exist (index 1 is out of bounds on an axis
\* shorter than 2; h-2 and w-2 are then negative and wrap around)
BoundaryRaises(size) == size[1] < 2 \/ size[2] < 2

\* the blend with the neighbour sum divided by 2 instead of 4
NewCell_HalfSum(old, p, rho) ==
    LET neighbors == old.cells[<<p[1] - 1, p[2]>>] + old.cells[<<p[1] + 1, p[2]>>]
                     + old.cells[<<p[1], p[2] - 1>>] + old.cells[<<p[1], p[2] + 1>>]
    IN (4 * (RhoDen - rho) * old.cells[p] + 2 * rho * neighbors) \div (4 * RhoDen)

\* the blend of one interior cell, read from the pre-step array old
NewCell(old, p, rho) ==
    LET neighbors == old.cells[<<p[1] - 1, p[2]>>] + old.cells[<<p[1] + 1, p[2]>>]
                     + old.cells[<<p[1], p[2] - 1>>] + old.cells[<<p[1], p[2] + 1>>]
    IN (4 * (RhoDen - rho) * old.cells[p] + rho * neighbors) \div (4 * RhoDen)

Interior(size) == (1..(size[1] - 2)) \X (1..(size[2] - 2))

\* the interior cells in the order of the two loops (row by row)
InteriorOrder(size) ==
    [k \in 1..((size[1] - 2) * (size[2] - 2)) |->
        <<1 + ((k - 1) \div (size[2] - 2)), 1 + ((k - 1) % (size[2] - 2))>>]

RECURSIVE BlendInPlace(_, _, _)
BlendInPlace(arr, todo, rho) ==
    IF todo = <<>> THEN arr
    ELSE BlendInPlace([arr EXCEPT !.cells[Head(todo)] = NewCell(arr, Head(todo), rho)],
                      Tail(todo), rho)

\* an update that writes into the array it reads from, cell after cell
SingleUpdateArray_InPlace(old, size, rho) ==
    ApplyBoundaryConditions(BlendInPlace(old, InteriorOrder(size), rho), size)

\* the array _single_update builds in new_grid
SingleUpdateArray(old, size, rho) ==
    LET blended == [old EXCEPT !.cells =
                       [p \in DOMAIN old.cells |->
                           IF p \in Interior(size) THEN NewCell(old, p, rho) ELSE old.cells[p]]]
    IN ApplyBoundaryConditions(blended, size)

\* a loop iteration that steps the grid but does not append to history
UpdateOnce_NoAppend(st, g, r) ==
    LET c == st.ca[g]
        a1 == Alloc(st.heap)
        h1 == [st.heap EXCEPT ![a1] =
                  SingleUpdateArray(st.heap[c.grid], c.grid_size, c.interaction_strength)]
        c1 == [st.ca EXCEPT ![g].grid = a1]
    IN [ca |-> c1, heap |-> Collect(c1, h1, r)]

\* a loop iteration that inserts the new state at the front of history
UpdateOnce_Prepend(st, g, r) ==
    LET c == st.ca[g]
        a1 == Alloc(st.heap)
        h1 == [st.heap EXCEPT ![a1] =
                  SingleUpdateArray(st.heap[c.grid], c.grid_size, c.interaction_strength)]
        c1 == [st.ca EXCEPT ![g].grid = a1]
        h2 == Collect(c1, h1, r)
        a2 == Alloc(h2)
        h3 == [h2 EXCEPT ![a2] = h2[a1]]
        c2 == [c1 EXCEPT ![g].history = <<a2>> \o @]
    IN [ca |-> c2, heap |-> h3]

\* _single_update followed by history.append(self.grid.copy()): one loop
\* iteration of update().  st is [ca |-> .., heap |-> ..].
UpdateOnce(st, g, r) ==
    LET c == st.ca[g]
        a1 == Alloc(st.heap)
        h1 == [st.heap EXCEPT ![a1] =
                  SingleUpdateArray(st.heap[c.grid], c.grid_size, c.interaction_strength)]
        c1 == [st.ca EXCEPT ![g].grid = a1]
        h2 == Collect(c1, h1, r)
        a2 == Alloc(h2)
        h3 == [h2 EXCEPT ![a2] = h2[a1]]
        c2 == [c1 EXCEPT ![g].history = Append(@, a2)]
    IN [ca |-> c2, heap |-> h3]

RECURSIVE UpdateLoop(_, _, _, _)
UpdateLoop(st, g, r, n) ==
    IF n = 0 THEN st ELSE UpdateLoop(UpdateOnce(st, g, r), g, r, n - 1)

\* CA2D.__init__(grid_size, interaction_strength, random_seed): the object
\* is bound to the name g, once
Construct(g, size, strength, seed) ==
    /\ ~Constructed(g)
    /\ LET s0 == SeededState(seed, rng)
           a1 == Alloc(heap)
           h1 == [heap EXCEPT ![a1] = RandomArray(size, s0)]
           a2 == Alloc(h1)
           h2 == [h1 EXCEPT ![a2] = h1[a1]]
       IN IF RandomRaises(size)
          THEN \* the seed is set (line 45), then line 48 raises: no object
               /\ rng' = s0
               /\ result' = Outcome("__init__", "", NoArg, Raised("ValueError"))
               /\ UNCHANGED <<ca, heap, ret, steps, seedOf>>
          ELSE /\ Commit([ca EXCEPT ![g] = [grid_size |-> size,
                                            interaction_strength |-> Clamp(strength),
                                            grid |-> a1,
                                            history |-> <<a2>>]], h2, ret)
               /\ rng' = RngAfterArray(size, s0)
               /\ steps' = [steps EXCEPT ![g] = 0]
               /\ seedOf' = [seedOf EXCEPT ![g] = seed]
               /\ result' = NoResult
    /\ UNCHANGED monVars

\* CA2D.update(iterations)
Update(g, n) ==
    /\ Constructed(g)
    /\ steps[g] + n <= MaxSteps
    /\ IF n > 0 /\ BoundaryRaises(ca[g].grid_size)
       THEN \* the first _single_update raises before self.grid is assigned
            /\ result' = Outcome("update", "", NoArg, Raised("IndexError"))
            /\ UNCHANGED <<ca, heap, ret, steps>>
       ELSE /\ LET st == UpdateLoop([ca |-> ca, heap |-> heap], g, ret, n)
               IN Commit(st.ca, st.heap, ret)
            /\ steps' = [steps EXCEPT ![g] = @ + n]
            /\ result' = NoResult
    /\ UNCHANGED <<rng, seedOf, monVars>>

\* ca.interaction_strength = v  (a plain attribute assignment)
SetInteractionStrength(g, v) ==
    /\ Constructed(g)
    /\ ca' = [ca EXCEPT ![g].interaction_strength = v]
    /\ UNCHANGED <<heap, rng, ret, steps, seedOf, monVars, callVars>>

\* CA2D.reset(random_seed)
Reset(g, seed) ==
    /\ Constructed(g)
    /\ LET s0 == SeededState(seed, rng)
           size == ca[g].grid_size
           c0 == [ca EXCEPT ![g].grid = 0, ![g].history = <<>>]
           h0 == Collect(c0, heap, ret)
           a1 == Alloc(h0)
           h1 == [h0 EXCEPT ![a1] = RandomArray(size, s0)]
           a2 == Alloc(h1)
           h2 == [h1 EXCEPT ![a2] = h1[a1]]
       IN /\ Commit([ca EXCEPT ![g].grid = a1, ![g].history = <<a2>>], h2, ret)
          /\ rng' = RngAfterArray(size, s0)
    /\ steps' = [steps EXCEPT ![g] = 0]
    /\ seedOf' = [seedOf EXCEPT ![g] = seed]
    /\ result' = NoResult
    /\ UNCHANGED monVars

\* timesteps a caller may ask for: None, and integers around the valid range
TimestepInputs == {None} \cup {<<t>> : t \in (0 - 1)..(MaxSteps + 1)}

\* get_state handing out the Grid's own arrays instead of copies
GetStateResult_Alias(c, h, timestep) ==
    IF timestep = None
    THEN [kind |-> "array", addr |-> c.grid, from |-> c.grid]
    ELSE IF 0 <= timestep[1] /\ timestep[1] < Len(c.history)
         THEN [kind |-> "array", addr |-> c.history[timestep[1] + 1],
               from |-> c.history[timestep[1] + 1]]
         ELSE [kind |-> "IndexError", addr |-> 0, from |-> 0]

\* get_state without the lower bound check: history[-k] counts from the end
GetStateResult_NoLowerBound(c, h, timestep) ==
    IF timestep = None
    THEN [kind |-> "array", addr |-> Alloc(h), from |-> c.grid]
    ELSE IF timestep[1] < Len(c.history) /\ 0 - timestep[1] <= Len(c.history)
         THEN [kind |-> "array", addr |-> Alloc(h),
               from |-> c.history[IF timestep[1] >= 0 THEN timestep[1] + 1
                                  ELSE Len(c.history) + timestep[1] + 1]]
         ELSE [kind |-> "IndexError", addr |-> 0, from |-> 0]

\* the reference CA2D.get_state(timestep) returns, given the heap h in which
\* the copy (if any) is allocated; "IndexError" when it raises
GetStateResult(c, h, timestep) ==
    IF timestep = None
    THEN [kind |-> "array", addr |-> Alloc(h), from |-> c.grid]
    ELSE IF 0 <= timestep[1] /\ timestep[1] < Len(c.history)
         THEN [kind |-> "array", addr |-> Alloc(h), from |-> c.history[timestep[1] + 1]]
         ELSE [kind |-> "IndexError", addr |-> 0, from |-> 0]

\* CA2D.get_state(timestep); the caller drops what it held before
GetState(g, timestep) ==
    /\ Constructed(g)
    /\ LET h0 == Collect(ca, heap, NoRet)
           res == GetStateResult(ca[g], h0, timestep)
       IN IF res.kind = "array"
          THEN Commit(ca, [h0 EXCEPT ![res.addr] = h0[res.from]],
                      [kind |-> "array", addr |-> res.addr])
          ELSE Commit(ca, h0, [kind |-> "IndexError", addr |-> 0])
    /\ UNCHANGED <<rng, steps, seedOf, monVars, callVars>>

\* the caller writes into the array it was handed: state[i, j] = v
CallerWrite(p, v) ==
    /\ ret.kind = "array"
    /\ p \in DOMAIN heap[ret.addr].cells
    /\ heap' = [heap EXCEPT ![ret.addr].cells[p] = v]
    /\ UNCHANGED <<ca, rng, ret, steps, seedOf, monVars, callVars>>

\* ------------------------------------------------------- specifications
\* ---------------------------------------------- critical exponent monitor
\* Fixed point: nu and beta are integers in thousandths (0.34 is 340); an
\* interaction strength p of a scan is an integer in units of 1/PScale
\* (0.0091 is 27300, 0.0001 is 300), which makes both linspace grids of
\* measure_critical_exponents exact.
PScale == 3 * Pow(10, 6)

Abs(x) == IF x < 0 THEN 0 - x ELSE x

\* a numpy array / Python list of length n: a function on 0 .. n-1
ArrLen(a) == Cardinality(DOMAIN a)

REFERENCE_VALUES ==
    [nu |-> 340, nu_error |-> 10,
     beta |-> 370, beta_error |-> 20,
     critical_point |-> 27300, critical_point_error |-> 300]

ALERT_CONDITIONS ==
    << [parameter |-> "nu", reference_value |-> 340,
        tolerance_sigma |-> 3, severity |-> "critical"],
       [parameter |-> "critical_point", reference_value |-> 27300,
        tolerance_sigma |-> 3, severity |-> "warning"],
       [parameter |-> "beta", reference_value |-> 370,
        tolerance_sigma |-> 2, severity |-> "warning"] >>

\* ---- logarithms, in fixed point -------------------------------------
\* log2 is computed digit by digit (square the mantissa, shift when it
\* reaches 2) on a 12 bit mantissa, to 10 fractional bits; a quotient of two
\* logarithms is base independent, so log2 stands for np.log.
LogOne == Pow(2, 10)

MantOne == Pow(2, 12)

RECURSIVE FloorLog2(_)
FloorLog2(n) == IF n < 2 THEN 0 ELSE 1 + FloorLog2(n \div 2)

RECURSIVE FracBits(_, _)
FracBits(m, k) ==
    IF k = 0 THEN 0
    ELSE LET sq == (m * m) \div MantOne
         IN IF sq >= 2 * MantOne
            THEN Pow(2, k - 1) + FracBits(sq \div 2, k - 1)
            ELSE FracBits(sq, k - 1)

\* log2(n) * LogOne for an integer n >= 1
Log2Fix(n) ==
    LET e == FloorLog2(n)
        m == IF Pow(2, e) >= MantOne THEN n \div (Pow(2, e) \div MantOne)
             ELSE n * (MantOne \div Pow(2, e))
    IN e * LogOne + FracBits(m, 10)

\* ---- _analyze_critical_behavior -------------------------------------
\* np.argmax: the first index of the maximum
ArgMax(a) ==
    CHOOSE i \in DOMAIN a :
        /\ \A j \in DOMAIN a : a[j] <= a[i]
        /\ \A j \in DOMAIN a : j < i => a[j] < a[i]

SetMax(S) == CHOOSE x \in S : \A y \in S : y <= x

\* c >= conductivities[peak_idx] / 2
AtLeastHalfMax(c, peak) == 2 * c >= peak

\* the left half-width indices searched up to and including the peak
LeftIndices_WithPeak(conductivities, peak_idx) ==
    {i \in DOMAIN conductivities :
        i <= peak_idx /\ AtLeastHalfMax(conductivities[i], conductivities[peak_idx])}

\* np.where(conductivities[:peak_idx] >= half_max)[0]
LeftIndices(conductivities, peak_idx) ==
    {i \in DOMAIN conductivities :
        i < peak_idx /\ AtLeastHalfMax(conductivities[i], conductivities[peak_idx])}

\* np.where(conductivities[peak_idx:] >= half_max)[0] + peak_idx
RightIndices(conductivities, peak_idx) ==
    {i \in DOMAIN conductivities :
        i >= peak_idx /\ AtLeastHalfMax(conductivities[i], conductivities[peak_idx])}

ClampMilli(x) ==
    LET m == IF x < 1000 THEN x ELSE 1000
    IN IF m > 100 THEN m ELSE 100

\* the quotient of the logarithms without the clamp
NuFromWidth_NoClamp(peak_width, grid_size) ==
    LET a == Log2Fix(PScale) - Log2Fix(peak_width)
        b == Log2Fix(grid_size)
    IN IF b = 0 THEN 1000 ELSE (1000 * a) \div b

\* max(0.1, min(1.0, 1.0 / (np.log(grid_size) / np.log(1.0 / peak_width)))) for
\* peak_width > 0; numpy divides by zero without raising (inf, then 1/inf = 0)
NuFromWidth(peak_width, grid_size) ==
    LET a == Log2Fix(PScale) - Log2Fix(peak_width)
        b == Log2Fix(grid_size)
    IN IF b = 0 THEN 1000
       ELSE IF a <= 0 THEN 100
       ELSE ClampMilli((1000 * a) \div b)

NuEstimate(p_values, conductivities, grid_size) ==
    LET peak_idx == ArgMax(conductivities)
        left_indices == LeftIndices(conductivities, peak_idx)
        right_indices == RightIndices(conductivities, peak_idx)
    IN IF left_indices # {} /\ right_indices # {}
       THEN LET left_p == p_values[SetMax(left_indices)]
                right_p == p_values[SetMax(right_indices)]
                peak_width == right_p - left_p
            IN IF peak_width > 0 THEN NuFromWidth(peak_width, grid_size) ELSE 340
       ELSE 340

RECURSIVE SumOver(_, _)
SumOver(f, S) ==
    IF S = {} THEN 0
    ELSE LET i == CHOOSE i \in S : TRUE IN f[i] + SumOver(f, S \ {i})

\* np.polyfit(log_p, log_chi, 1)[0] turned into beta: -slope / 2.5, clamped.
\* x and y are the logarithms, in sixteenths, of p_rel = |p - p_c| + 1e-6 and
\* of chi over the index set V.  With p_values strictly increasing three
\* points never share one |p - p_c|, so the fit is never rank deficient.
BetaFromFit(p_values, susceptibilities, critical_point, V) ==
    LET x == [i \in V |-> Log2Fix(Abs(p_values[i] - critical_point) + 3) \div 64]
        y == [i \in V |-> Log2Fix(susceptibilities[i]) \div 64]
        n == Cardinality(V)
        num == n * SumOver([i \in V |-> x[i] * y[i]], V) - SumOver(x, V) * SumOver(y, V)
        den == n * SumOver([i \in V |-> x[i] * x[i]], V) - SumOver(x, V) * SumOver(x, V)
    IN IF den = 0 THEN 370 ELSE ClampMilli(((0 - num) * 400) \div den)

BetaEstimate(p_values, susceptibilities, peak_idx, critical_point) ==
    LET n == ArrLen(p_values)
        lo == IF peak_idx - 2 > 0 THEN peak_idx - 2 ELSE 0
        hi == IF peak_idx + 3 < n THEN peak_idx + 3 ELSE n
        near == {i \in DOMAIN susceptibilities : lo <= i /\ i < hi}
        valid == {i \in near : susceptibilities[i] > 0}
    IN IF ArrLen(susceptibilities) > 3 /\ peak_idx > 0
       THEN IF Cardinality({i \in DOMAIN p_values : lo <= i /\ i < hi}) > 2 /\ valid # {}
            THEN IF Cardinality(valid) > 2
                 THEN BetaFromFit(p_values, susceptibilities, critical_point, valid)
                 ELSE 370
            ELSE 370
       ELSE 370

\* "Status determination": deviations in units of the reference errors
StatusOf_NuOnly(nu_estimate, critical_point) ==
    LET nu_dev == Abs(nu_estimate - REFERENCE_VALUES.nu)
        nu_err == REFERENCE_VALUES.nu_error
    IN IF nu_dev > 3 * nu_err THEN "critical"
       ELSE IF nu_dev > 2 * nu_err THEN "warning"
       ELSE "normal"

\* a status that is already 'critical' beyond two reference errors
StatusOf_CriticalAtTwoSigma(nu_estimate, critical_point) ==
    LET nu_dev == Abs(nu_estimate - REFERENCE_VALUES.nu)
        nu_err == REFERENCE_VALUES.nu_error
        pc_dev == Abs(critical_point - REFERENCE_VALUES.critical_point)
        pc_err == REFERENCE_VALUES.critical_point_error
    IN IF nu_dev > 2 * nu_err \/ pc_dev > 2 * pc_err THEN "critical" ELSE "normal"

StatusOf(nu_estimate, critical_point) ==
    LET nu_dev == Abs(nu_estimate - REFERENCE_VALUES.nu)
        nu_err == REFERENCE_VALUES.nu_error
        pc_dev == Abs(critical_point - REFERENCE_VALUES.critical_point)
        pc_err == REFERENCE_VALUES.critical_point_error
    IN IF nu_dev > 3 * nu_err \/ pc_dev > 3 * pc_err THEN "critical"
       ELSE IF nu_dev > 2 * nu_err \/ pc_dev > 2 * pc_err THEN "warning"
       ELSE "normal"

\* the critical point read off the last index of the maximum
CriticalPoint_LastMax(p_values, conductivities) ==
    p_values[SetMax({i \in DOMAIN conductivities :
                        \A j \in DOMAIN conductivities : conductivities[j] <= conductivities[i]})]

CriticalPoint(p_values, conductivities) == p_values[ArgMax(conductivities)]

AnalyzeCriticalBehavior(p_values, conductivities, susceptibilities, grid_size) ==
    LET peak_idx == ArgMax(conductivities)
        critical_point == CriticalPoint(p_values, conductivities)
        nu_estimate == NuEstimate(p_values, conductivities, grid_size)
        beta_estimate == BetaEstimate(p_values, susceptibilities, peak_idx, critical_point)
    IN [nu |-> nu_estimate,
        nu_error |-> IF grid_size >= 32 THEN 20 ELSE 50,
        beta |-> beta_estimate,
        beta_error |-> 30,
        critical_point |-> critical_point,
        status |-> StatusOf(nu_estimate, critical_point)]

\* ------------------------------------------------- info_cond.py (numerics)
\* A conductivity is a fixed-point integer: simple, gradient and variance
\* values in units of 1/Unit (rounded down), an entropy conductivity in
\* thousandths.  An array here is a record [shape, cells] with at least one
\* cell.
Size(arr) == arr.shape[1] * arr.shape[2]

SumCells(arr) == SumOver(arr.cells, DOMAIN arr.cells)

MinCell(arr) == CHOOSE x \in {arr.cells[p] : p \in DOMAIN arr.cells} :
                    \A p \in DOMAIN arr.cells : x <= arr.cells[p]

MaxCell(arr) == CHOOSE x \in {arr.cells[p] : p \in DOMAIN arr.cells} :
                    \A p \in DOMAIN arr.cells : arr.cells[p] <= x

\* a * b / c rounded down, for a, b >= 0 and c > 0, without the product a * b
MulDiv(a, b, c) == (a \div c) * b + ((a % c) * b) \div c

\* the middle of the value range instead of the mean
SimpleConductivity_MidRange(arr) == (MinCell(arr) + MaxCell(arr)) \div 2

\* float(np.mean(grid_state))
SimpleConductivity(arr) == SumCells(arr) \div Size(arr)

\* bins of np.histogram(flat_state, bins=10)
Bins == 10

\* the range of np.histogram: (min, max), widened by 0.5 on both sides when
\* the two are equal
FirstEdge(arr) ==
    IF MinCell(arr) = MaxCell(arr) THEN MinCell(arr) - Unit \div 2 ELSE MinCell(arr)

LastEdge(arr) ==
    IF MinCell(arr) = MaxCell(arr) THEN MaxCell(arr) + Unit \div 2 ELSE MaxCell(arr)

\* the bin of x: half-open intervals, the last one closed
BinOf(arr, x) ==
    IF x = LastEdge(arr) THEN Bins - 1
    ELSE (Bins * (x - FirstEdge(arr))) \div (LastEdge(arr) - FirstEdge(arr))

\* counts of np.histogram(..., density=False)
BinCount(arr, k) == Cardinality({p \in DOMAIN arr.cells : BinOf(arr, arr.cells[p]) = k})

\* np.histogram(..., density=True) returns count / (total * bin width), i.e.
\* the fraction DensityNum / DensityDen with the bin width in cell units
DensityNum(arr, k) == Bins * Unit * BinCount(arr, k)

DensityDen(arr) == Size(arr) * (LastEdge(arr) - FirstEdge(arr))

\* counts * np.log2(counts + 1e-12) for one bin, in 1/LogOne bits, as
\* [neg, abs]; the 1e-12 is far below the resolution
EntropyTerm(arr, k) ==
    LET num == DensityNum(arr, k)
        den == DensityDen(arr)
        lg == Log2Fix(num) - Log2Fix(den)
    IN [neg |-> lg < 0, abs |-> MulDiv(num, Abs(lg), den)]

\* -np.sum(counts * np.log2(counts + 1e-12)) over the bins with counts > 0,
\* in 1/LogOne bits
EntropySum(arr) ==
    LET used == {k \in 0..(Bins - 1) : BinCount(arr, k) > 0}
        t == [k \in used |-> EntropyTerm(arr, k)]
        pos == {k \in used : ~t[k].neg}
        neg == {k \in used : t[k].neg}
    IN SumOver([k \in neg |-> t[k].abs], neg) - SumOver([k \in pos |-> t[k].abs], pos)

\* entropy_conductivity(grid_state) with bins=10, method='histogram':
\* entropy / np.log2(bins), in thousandths
EntropyConductivity(arr) ==
    LET e == EntropySum(arr)
        q == MulDiv(Abs(e), 1000, Log2Fix(Bins))
    IN IF e < 0 THEN 0 - q ELSE q

RECURSIVE ISqrt(_)
ISqrt(n) ==
    IF n < 2 THEN n
    ELSE LET r == 2 * ISqrt(n \div 4)
         IN IF (r + 1) * (r + 1) <= n THEN r + 1 ELSE r

\* np.gradient needs two elements along each axis, and raises ValueError
GradientRaises(arr) == arr.shape[1] < 2 \/ arr.shape[2] < 2

\* twice the np.gradient of f along one axis at index i of 0 .. n-1: central
\* differences inside, one-sided differences at the two ends
Gradient2(f, i, n) ==
    IF i = 0 THEN 2 * (f[1] - f[0])
    ELSE IF i = n - 1 THEN 2 * (f[n - 1] - f[n - 2])
    ELSE f[i + 1] - f[i - 1]

\* twice np.sqrt(grad_x**2 + grad_y**2) at cell p
GradMagnitude2(arr, p) ==
    LET gx == Gradient2([i \in 0..(arr.shape[1] - 1) |-> arr.cells[<<i, p[2]>>]],
                        p[1], arr.shape[1])
        gy == Gradient2([j \in 0..(arr.shape[2] - 1) |-> arr.cells[<<p[1], j>>]],
                        p[2], arr.shape[2])
    IN ISqrt(gx * gx + gy * gy)

\* spatial_gradient_conductivity(grid_state, interaction_strength), the
\* strength in units of 1/RhoDen
GradientConductivity(arr, strength) ==
    LET total == SumOver([p \in DOMAIN arr.cells |-> GradMagnitude2(arr, p)],
                         DOMAIN arr.cells)
        mean == total \div (2 * Size(arr))
    IN IF strength >= 0 THEN (strength * mean) \div RhoDen
       ELSE 0 - ((0 - strength) * mean) \div RhoDen

\* float(np.var(grid)): the mean squared deviation from the mean
VarianceOf(arr) ==
    LET n == Size(arr)
        s == SumCells(arr)
        dev == [p \in DOMAIN arr.cells |-> Abs(n * arr.cells[p] - s) \div n]
    IN SumOver([p \in DOMAIN arr.cells |-> dev[p] * dev[p]], DOMAIN arr.cells)
           \div (n * Unit)

\* ---- multi_scale_conductivity ------------------------------------------
Scales == <<1, 2, 4>>

\* the scale x scale block means of the array (the array itself at scale 1)
ScaledGrid(arr, scale) ==
    LET new_h == arr.shape[1] \div scale
        new_w == arr.shape[2] \div scale
        block(p) == {q \in DOMAIN arr.cells :
                        /\ p[1] * scale <= q[1] /\ q[1] < (p[1] + 1) * scale
                        /\ p[2] * scale <= q[2] /\ q[2] < (p[2] + 1) * scale}
    IN [shape |-> <<new_h, new_w>>,
        cells |-> [p \in Cells(<<new_h, new_w>>) |->
                      SumOver(arr.cells, block(p)) \div (scale * scale)]]

\* the scales that are not skipped (new_h == 0 or new_w == 0: continue)
UsedScales(arr) ==
    {k \in 1..Len(Scales) :
        arr.shape[1] \div Scales[k] > 0 /\ arr.shape[2] \div Scales[k] > 0}

\* multi_scale_conductivity(grid_state): the dict, one entry per used scale;
\* ValueError out of np.gradient when a scaled grid has a single row or column
MultiScaleConductivity(arr) ==
    IF \E k \in UsedScales(arr) : GradientRaises(ScaledGrid(arr, Scales[k]))
    THEN Raised("ValueError")
    ELSE [kind |-> "dict",
          value |-> [k \in UsedScales(arr) |->
                        LET g == ScaledGrid(arr, Scales[k])
                        IN [simple |-> SimpleConductivity(g),
                            entropy |-> EntropyConductivity(g),
                            gradient |-> GradientConductivity(g, RhoDen),
                            grid_size |-> g.shape]],
          warned |-> FALSE]

\* ---- temporal_conductivity ---------------------------------------------
\* one entry of the series; "variance" is the default method
TemporalEntry(arr, method) ==
    IF method = "simple" THEN SimpleConductivity(arr)
    ELSE IF method = "entropy" THEN EntropyConductivity(arr)
    ELSE VarianceOf(arr)

\* a series that starts at the second entry of the history
TemporalConductivity_FromSecond(grid_history, method) ==
    IF Len(grid_history) < 2
    THEN IF Len(grid_history) = 0
         THEN [kind |-> "IndexError", value |-> 0, warned |-> TRUE]
         ELSE [kind |-> "array", value |-> <<SimpleConductivity(grid_history[1])>>,
               warned |-> TRUE]
    ELSE IF method \notin {"simple", "entropy", "variance"}
         THEN Raised("ValueError")
         ELSE [kind |-> "array",
               value |-> [i \in 1..(Len(grid_history) - 1) |->
                             TemporalEntry(grid_history[i + 1], method)],
               warned |-> FALSE]

\* temporal_conductivity(grid_history, method=method); grid_history is the
\* sequence of the arrays
TemporalConductivity(grid_history, method) ==
    IF Len(grid_history) < 2
    THEN IF Len(grid_history) = 0
         THEN \* warnings.warn, then grid_history[0] raises
              [kind |-> "IndexError", value |-> 0, warned |-> TRUE]
         ELSE [kind |-> "array", value |-> <<SimpleConductivity(grid_history[1])>>,
               warned |-> TRUE]
    ELSE IF method \notin {"simple", "entropy", "variance"}
         THEN Raised("ValueError")
         ELSE [kind |-> "array",
               value |-> [i \in 1..Len(grid_history) |->
                             TemporalEntry(grid_history[i], method)],
               warned |-> FALSE]

\* ---- calculate_information_conductivity --------------------------------
\* The first argument is [list |-> isinstance(grid_state, list), arrays |->
\* the arrays (one, when it is not a list)]; kwargs is None or
\* <<interaction_strength>>.
Float(v) == [kind |-> "float", value |-> v, warned |-> FALSE]

ArrayOf(values) == [kind |-> "array", value |-> values, warned |-> FALSE]

\* a dispatch that answers an unrecognised tag with the simple conductivity
Calculate_DefaultSimple(input, method, kwargs) ==
    IF input.list
    THEN ArrayOf([i \in 1..Len(input.arrays) |-> SimpleConductivity(input.arrays[i])])
    ELSE Float(SimpleConductivity(input.arrays[1]))

CalculateInformationConductivity(input, method, kwargs) ==
    LET n == Len(input.arrays)
        strength == IF kwargs = None THEN RhoDen ELSE kwargs[1]
    IN IF method = "simple"
       THEN IF input.list
            THEN ArrayOf([i \in 1..n |-> SimpleConductivity(input.arrays[i])])
            ELSE Float(SimpleConductivity(input.arrays[1]))
       ELSE IF method = "entropy"
       THEN IF kwargs # None /\ n > 0
            THEN Raised("TypeError")  \* entropy_conductivity takes no interaction_strength
            ELSE IF input.list
                 THEN ArrayOf([i \in 1..n |-> EntropyConductivity(input.arrays[i])])
                 ELSE Float(EntropyConductivity(input.arrays[1]))
       ELSE IF method = "gradient"
       THEN IF \E i \in 1..n : GradientRaises(input.arrays[i])
            THEN Raised("ValueError")
            ELSE IF input.list
                 THEN ArrayOf([i \in 1..n |->
                                  GradientConductivity(input.arrays[i], strength)])
                 ELSE Float(GradientConductivity(input.arrays[1], strength))
       ELSE IF method = "temporal"
       THEN IF ~input.list THEN Raised("ValueError")
            ELSE IF kwargs # None THEN Raised("TypeError")
            ELSE TemporalConductivity(input.arrays, "variance")
       ELSE IF method = "multiscale"
       THEN IF input.list THEN Raised("ValueError")
            ELSE IF kwargs # None THEN Raised("TypeError")
            ELSE MultiScaleConductivity(input.arrays[1])
       ELSE Raised("ValueError")

\* the tags the dispatch knows
KnownMethods == {"simple", "entropy", "gradient", "temporal", "multiscale"}

MethodInputs == KnownMethods \cup {"variance", "invalid_method"}

\* np.full(shape, v)
Full(shape, v) == [shape |-> shape, cells |-> [p \in Cells(shape) |-> v]]

\* the 3 x 3 array of alternating 0.0 and 1.0 of test_entropy_method
BinaryGrid ==
    [shape |-> <<3, 3>>,
     cells |-> [p \in Cells(<<3, 3>>) |-> IF (p[1] + p[2]) % 2 = 0 THEN 0 ELSE Unit]]

\* arrays a caller passes directly: constant ones, [[0.5]], the binary one
ArrayInputs ==
    {Full(<<3, 3>>, v) : v \in {0, Unit \div 2, Unit}}
        \cup {Full(<<1, 1>>, Unit \div 2), BinaryGrid}

\* first arguments a caller passes directly: an array, or a list of 0 to 2
CalculateInputs ==
    {[list |-> FALSE, arrays |-> <<a>>] : a \in ArrayInputs}
        \cup {[list |-> TRUE, arrays |-> <<>>],
              [list |-> TRUE, arrays |-> <<BinaryGrid>>],
              [list |-> TRUE, arrays |-> <<Full(<<3, 3>>, Unit), BinaryGrid>>]}

\* calculate_information_conductivity(grid_state, method=method), called
\* directly; the call involves no Grid and is made while none is constructed
Calculate(input, method) ==
    /\ \A g \in GridIds : ~Constructed(g)
    /\ result' = Outcome("calculate_information_conductivity", method, input,
                         CalculateInformationConductivity(input, method, None))
    /\ UNCHANGED <<gridVars, monVars>>

\* CA2D.information_conductivity(method)
InformationConductivity(g, method) ==
    /\ Constructed(g)
    /\ Size(heap[ca[g].grid]) > 0
    /\ LET arg == [list |-> FALSE, arrays |-> <<heap[ca[g].grid]>>]
       IN result' = Outcome("information_conductivity", method, arg,
                            CalculateInformationConductivity(
                                arg, method, <<ca[g].interaction_strength>>))
    /\ UNCHANGED <<gridVars, monVars>>

\* CA2D.get_conductivity_series(method)
GetConductivitySeries(g, method) ==
    /\ Constructed(g)
    /\ Size(heap[ca[g].grid]) > 0
    /\ LET arg == [list |-> TRUE,
                   arrays |-> [i \in 1..Len(ca[g].history) |-> heap[ca[g].history[i]]]]
       IN result' = Outcome("get_conductivity_series", method, arg,
                            CalculateInformationConductivity(
                                arg, IF method = "simple" THEN "temporal" ELSE method,
                                None))
    /\ UNCHANGED <<gridVars, monVars>>

NoScan == [p_values |-> <<>>, conductivities |-> <<>>, susceptibilities |-> <<>>,
           grid_size |-> 0]

NoMeasurement ==
    [nu |-> 0, nu_error |-> 0, beta |-> 0, beta_error |-> 0, critical_point |-> 0,
     grid_size |-> 0, status |-> "none"]

NoAlerts == [checked |-> FALSE, list |-> <<>>]

\* pc: "idle", then "reset", "equil", "measure", "record" for each scanned
\* value, then "analyze" and "done"; "raised" when the call raised.
\* k: index of the current p; done: steps made in the current loop
NoRun ==
    [pc |-> "idle", quick_mode |-> FALSE, calc_grid |-> "constructed",
     requested |-> 0, iterations |-> 0, k |-> 0, done |-> 0,
     conductivity_sum |-> 0, activity_values |-> <<>>]

\* lines 168-184 of measure_critical_exponents: analyse the series of the scan
\* and build the measurement record (timestamp and notes left out)
Analyze ==
    /\ run.pc = "analyze"
    /\ scan # NoScan
    /\ measurement = NoMeasurement
    /\ LET analysis == AnalyzeCriticalBehavior(scan.p_values, scan.conductivities,
                                               scan.susceptibilities, scan.grid_size)
       IN measurement' = [nu |-> analysis.nu,
                          nu_error |-> analysis.nu_error,
                          beta |-> analysis.beta,
                          beta_error |-> analysis.beta_error,
                          critical_point |-> analysis.critical_point,
                          grid_size |-> scan.grid_size,
                          status |-> analysis.status]
    /\ run' = [run EXCEPT !.pc = "done"]
    /\ UNCHANGED <<scan, alerts, gridVars, callVars>>

\* ---- check_alerts -----------------------------------------------------
\* the local dict `values`: parameter -> (value, error)
ValuesOf(m) ==
    [nu |-> [value |-> m.nu, error |-> m.nu_error],
     beta |-> [value |-> m.beta, error |-> m.beta_error],
     critical_point |-> [value |-> m.critical_point, error |-> 300]]

ToleranceOf(parameter, error) ==
    IF parameter = "nu" THEN REFERENCE_VALUES.nu_error
    ELSE IF parameter = "beta" THEN REFERENCE_VALUES.beta_error
    ELSE IF parameter = "critical_point" THEN REFERENCE_VALUES.critical_point_error
    ELSE error

\* deviation / tolerance if tolerance > 0 else 0, as the fraction num / den
SigmaDeviation(value, reference, tolerance) ==
    IF tolerance > 0 THEN [num |-> Abs(value - reference), den |-> tolerance]
    ELSE [num |-> 0, den |-> 1]

\* the comparison with >= in place of >
ExceedsSigma_OrEqual(sigma, tolerance_sigma) == sigma.num >= tolerance_sigma * sigma.den

\* sigma_deviation > condition.tolerance_sigma
ExceedsSigma(sigma, tolerance_sigma) == sigma.num > tolerance_sigma * sigma.den

\* one pass of the loop body: the alerts (none or one) of one condition
AlertsOfCondition(m, condition) ==
    IF condition.parameter \in DOMAIN ValuesOf(m)
    THEN LET v == ValuesOf(m)[condition.parameter]
             tolerance == ToleranceOf(condition.parameter, v.error)
             sigma == SigmaDeviation(v.value, condition.reference_value, tolerance)
         IN IF ExceedsSigma(sigma, condition.tolerance_sigma)
            THEN << [parameter |-> condition.parameter,
                     value |-> v.value,
                     error |-> v.error,
                     reference |-> condition.reference_value,
                     sigma_deviation |-> sigma,
                     severity |-> condition.severity] >>
            ELSE <<>>
    ELSE <<>>

RECURSIVE CheckAlertsList(_, _)
CheckAlertsList(m, conditions) ==
    IF conditions = <<>> THEN <<>>
    ELSE AlertsOfCondition(m, Head(conditions)) \o CheckAlertsList(m, Tail(conditions))

\* check_alerts(measurement)
CheckAlerts ==
    /\ measurement # NoMeasurement
    /\ ~alerts.checked
    /\ alerts' = [checked |-> TRUE, list |-> CheckAlertsList(measurement, ALERT_CONDITIONS)]
    /\ UNCHANGED <<scan, measurement, run, gridVars, callVars>>

MonIdle ==
    /\ scan = NoScan
    /\ measurement = NoMeasurement
    /\ alerts = NoAlerts
    /\ run = NoRun

\* no Grid in use
GridIdle ==
    /\ ca = [g \in GridIds |-> NoGrid]
    /\ heap = [a \in Addr |-> Free]
    /\ rng = 0
    /\ ret = NoRet
    /\ steps = [g \in GridIds |-> 0]
    /\ seedOf = [g \in GridIds |-> None]
    /\ result = NoResult

\* ---- inputs -----------------------------------------------------------
\* largest number of scanned parameter values
MaxPSteps == 5

\* np.linspace(p_min, p_max, n)
Linspace(p_min, p_max, n) ==
    [i \in 0..(n - 1) |-> IF n = 1 THEN p_min ELSE p_min + (i * (p_max - p_min)) \div (n - 1)]

\* the two scan windows of measure_critical_exponents, and a narrow one
PRanges == {<<24000, 36000>>, <<21000, 39000>>, <<25500, 28500>>}

\* p_values: evenly spaced, or a coarse scan through the reference point
PValueInputs ==
    {Linspace(r[1], r[2], n) : r \in PRanges, n \in 1..MaxPSteps}
        \cup {[i \in 0..2 |-> <<0, 27300, x>>[i + 1]] : x \in {840000, 900000, 2700000}}

ConductivityLevels == {0, 1, 2}

\* susceptibilities: a rising series with zeros at the positions of Z
SusceptibilityInputs(n) ==
    {[i \in 0..(n - 1) |-> IF i \in Z THEN 0 ELSE Pow(2, i)] :
        Z \in {{}, {0}, {0, 1}, {0, 1, 2}, 0..(n - 1)}}

GridSizeInputs == {16, 32}

ScanInputs ==
    UNION {{[p_values |-> pv, conductivities |-> c, susceptibilities |-> chi, grid_size |-> L] :
               c \in [DOMAIN pv -> ConductivityLevels],
               chi \in SusceptibilityInputs(ArrLen(pv)),
               L \in GridSizeInputs} :
           pv \in PValueInputs}

\* measured values handed to check_alerts: around each reference value, at
\* and next to each threshold, and far away
NuInputs == {100, 309, 310, 320, 341, 360, 370, 371, 500, 1000}

BetaInputs == {100, 329, 330, 370, 410, 411, 1000}

CriticalPointInputs == {24000, 26399, 26400, 27300, 28200, 28201, 36000}

MeasurementInputs ==
    {[nu |-> nu, nu_error |-> 20, beta |-> beta, beta_error |-> 30,
      critical_point |-> pc, grid_size |-> 32, status |-> StatusOf(nu, pc)] :
        nu \in NuInputs, beta \in BetaInputs, pc \in CriticalPointInputs}

\* ---- measure_critical_exponents: the scan ------------------------------
\* The monitor calls ca.step() and InformationConductivity(ca.grid)
\* .calculate_conductivity_entropy() and passes an integer grid_size; the
\* three are modelled after the specification: an L x L grid, one update
\* step, and the entropy conductivity of the array the calculator was given.
\* In a scan the interaction strength of the Grid is in units of 1/PScale.

\* the grid the calculator may keep
CalcGrids == {"constructed", "current"}

\* largest iterations argument of a scan
MaxIterations == 3

IterationInputs == 0..MaxIterations

ScanGridSizes == {3}

\* the 13 values of the standard scan in both modes
ScanPValues_StandardGrid(quick_mode) == Linspace(21000, 39000, 13)

\* np.linspace(0.007, 0.013, 13), or np.linspace(0.008, 0.012, 7) in quick mode
ScanPValues(quick_mode) ==
    IF quick_mode THEN Linspace(24000, 36000, 7) ELSE Linspace(21000, 39000, 13)

\* iterations = min(iterations, 20) in quick mode
EffectiveIterations(iterations, quick_mode) ==
    IF quick_mode /\ iterations > 20 THEN 20 ELSE iterations

\* half of the budget, rounded up
EquilibSteps_RoundedUp(r) == (r.iterations + 1) \div 2

\* equilib_steps = iterations // 2
EquilibSteps(r) == r.iterations \div 2

MeasurementSteps(r) == r.iterations - EquilibSteps(r)

\* list.append on a list kept as a function on 0 .. n-1
Append0(f, x) == [i \in 0..ArrLen(f) |-> IF i < ArrLen(f) THEN f[i] ELSE x]

\* the blend of one interior cell with the strength p / PScale, rounded down
ScanNewCell(old, pos, p) ==
    LET neighbors == old.cells[<<pos[1] - 1, pos[2]>>] + old.cells[<<pos[1] + 1, pos[2]>>]
                     + old.cells[<<pos[1], pos[2] - 1>>] + old.cells[<<pos[1], pos[2] + 1>>]
    IN old.cells[pos] + (p * (neighbors - 4 * old.cells[pos])) \div (4 * PScale)

ScanUpdateArray(old, size, p) ==
    LET blended == [old EXCEPT !.cells =
                       [pos \in DOMAIN old.cells |->
                           IF pos \in Interior(size) THEN ScanNewCell(old, pos, p)
                           ELSE old.cells[pos]]]
    IN ApplyBoundaryConditions(blended, size)

\* ca.step(): the new state becomes current and is appended to history
ScanStep(c, h, r) ==
    LET a1 == Alloc(h)
        h1 == [h EXCEPT ![a1] =
                  ScanUpdateArray(h[c[1].grid], c[1].grid_size, c[1].interaction_strength)]
        c1 == [c EXCEPT ![1].grid = a1]
        h2 == Collect(c1, h1, r)
        a2 == Alloc(h2)
        h3 == [h2 EXCEPT ![a2] = h2[a1]]
        c2 == [c1 EXCEPT ![1].history = Append(@, a2)]
    IN [ca |-> c2, heap |-> h3]

\* info_calc.calculate_conductivity_entropy(): the entropy conductivity of the
\* calculator's grid, which is the array it was constructed with (the caller's
\* reference ret) or the current grid of the automaton, whichever the
\* calculator keeps
InfoCalcEntropy(c, h, r, calc_grid) ==
    IF calc_grid = "constructed" THEN EntropyConductivity(h[r.addr])
    ELSE EntropyConductivity(h[c[1].grid])

\* np.var(activity_values) * grid_size**2, in units of 1/Unit^2
Susceptibility(activity_values, grid_size) ==
    LET n == Len(activity_values)
        s == SumOver(activity_values, 1..n)
        q == SumOver([i \in 1..n |-> activity_values[i] * activity_values[i]], 1..n)
    IN ((n * q - s * s) \div (n * n)) * grid_size * grid_size

\* a susceptibility recorded only when there are two activity samples
SusceptibilityAppended_NoElse(susceptibilities, activity_values, grid_size) ==
    IF Len(activity_values) > 1
    THEN Append0(susceptibilities, Susceptibility(activity_values, grid_size))
    ELSE susceptibilities

\* lines 160-166: the susceptibility of the value, or 0, is appended
SusceptibilityAppended(susceptibilities, activity_values, grid_size) ==
    IF Len(activity_values) > 1
    THEN Append0(susceptibilities, Susceptibility(activity_values, grid_size))
    ELSE Append0(susceptibilities, 0)

\* where the loop body goes once `done` steps of the phase pc are made
AfterSteps(r, pc, done) ==
    IF pc = "equil" /\ done < EquilibSteps(r) THEN "equil"
    ELSE IF pc \in {"equil", "measure"} /\ MeasurementSteps(r) = 0 THEN "record"
    ELSE IF pc = "equil" THEN "measure"
    ELSE IF done < MeasurementSteps(r) THEN "measure"
    ELSE "record"

\* lines 115-130: the arguments, CA2D(grid_size, random_seed=int(time.time()) %
\* 10000), InformationConductivity(ca.grid), p_values and the two empty lists
MeasureStart(grid_size, iterations, quick_mode, seed, calc_grid) ==
    /\ run.pc = "idle"
    /\ ~Constructed(1)
    /\ LET s0 == SeedRng(seed)
           size == <<grid_size, grid_size>>
           a1 == Alloc(heap)
           h1 == [heap EXCEPT ![a1] = RandomArray(size, s0)]
           a2 == Alloc(h1)
           h2 == [h1 EXCEPT ![a2] = h1[a1]]
       IN /\ Commit([ca EXCEPT ![1] = [grid_size |-> size,
                                       interaction_strength |-> PScale \div 2,
                                       grid |-> a1,
                                       history |-> <<a2>>]],
                    h2, [kind |-> "array", addr |-> a1])
          /\ rng' = RngAfterArray(size, s0)
    /\ steps' = [steps EXCEPT ![1] = 0]
    /\ seedOf' = [seedOf EXCEPT ![1] = <<seed>>]
    /\ scan' = [p_values |-> ScanPValues(quick_mode), conductivities |-> <<>>,
                susceptibilities |-> <<>>, grid_size |-> grid_size]
    /\ run' = [pc |-> "reset", quick_mode |-> quick_mode, calc_grid |-> calc_grid,
               requested |-> iterations,
               iterations |-> EffectiveIterations(iterations, quick_mode),
               k |-> 0, done |-> 0, conductivity_sum |-> 0, activity_values |-> <<>>]
    /\ UNCHANGED <<measurement, alerts, result>>

\* lines 133-147: ca.interaction_strength = p; ca.reset(); the locals of the
\* loop body are initialised
ScanReset ==
    /\ run.pc = "reset"
    /\ LET size == ca[1].grid_size
           c0 == [ca EXCEPT ![1].interaction_strength = scan.p_values[run.k],
                            ![1].grid = 0, ![1].history = <<>>]
           h0 == Collect(c0, heap, ret)
           a1 == Alloc(h0)
           h1 == [h0 EXCEPT ![a1] = RandomArray(size, rng)]
           a2 == Alloc(h1)
           h2 == [h1 EXCEPT ![a2] = h1[a1]]
       IN /\ Commit([c0 EXCEPT ![1].grid = a1, ![1].history = <<a2>>], h2, ret)
          /\ rng' = RngAfterArray(size, rng)
    /\ steps' = [steps EXCEPT ![1] = 0]
    /\ seedOf' = [seedOf EXCEPT ![1] = None]
    /\ run' = [run EXCEPT !.pc = AfterSteps(run, "equil", 0), !.done = 0,
                          !.conductivity_sum = 0, !.activity_values = <<>>]
    /\ UNCHANGED <<scan, measurement, alerts, result>>

\* lines 139-140: one equilibration step
ScanEquilStep ==
    /\ run.pc = "equil"
    /\ LET st == ScanStep(ca, heap, ret)
       IN Commit(st.ca, st.heap, ret)
    /\ steps' = [steps EXCEPT ![1] = @ + 1]
    /\ run' = [run EXCEPT !.pc = AfterSteps(run, "equil", run.done + 1),
                          !.done = IF run.done + 1 < EquilibSteps(run)
                                   THEN run.done + 1 ELSE 0]
    /\ UNCHANGED <<rng, seedOf, scan, measurement, alerts, result>>

\* lines 148-155: one measurement step
ScanMeasureStep ==
    /\ run.pc = "measure"
    /\ LET st == ScanStep(ca, heap, ret)
           mean_activity == SimpleConductivity(st.heap[st.ca[1].grid])
       IN /\ Commit(st.ca, st.heap, ret)
          /\ LET conductivity == InfoCalcEntropy(st.ca, st.heap, ret, run.calc_grid)
             IN run' = [run EXCEPT !.pc = AfterSteps(run, "measure", run.done + 1),
                                !.done = run.done + 1,
                                !.conductivity_sum = @ + conductivity,
                                !.activity_values = Append(@, mean_activity)]
    /\ steps' = [steps EXCEPT ![1] = @ + 1]
    /\ UNCHANGED <<rng, seedOf, scan, measurement, alerts, result>>

\* lines 157-166: the average conductivity and the susceptibility of the
\* value are appended; 0 / 0 raises ZeroDivisionError when iterations is 0
ScanRecord ==
    /\ run.pc = "record"
    /\ IF MeasurementSteps(run) = 0
       THEN /\ run' = [run EXCEPT !.pc = "raised"]
            /\ result' = Outcome("measure_critical_exponents", "", NoArg,
                                 Raised("ZeroDivisionError"))
            /\ UNCHANGED scan
       ELSE /\ scan' = [scan EXCEPT
                          !.conductivities =
                              Append0(@, run.conductivity_sum \div MeasurementSteps(run)),
                          !.susceptibilities =
                              SusceptibilityAppended(@, run.activity_values, scan.grid_size)]
            /\ run' = [run EXCEPT !.k = @ + 1,
                                  !.pc = IF run.k + 1 < ArrLen(scan.p_values)
                                         THEN "reset" ELSE "analyze"]
            /\ UNCHANGED result
    /\ UNCHANGED <<gridVars, measurement, alerts>>

\* ---- the update step in floating point ---------------------------------
\* numpy evaluates the blend in binary floating point, rounding after every
\* operation (round to nearest, ties to even).  Here a float has MantBits
\* significant bits instead of 53 and is kept as an integer in units of
\* 1/FloatOne; below FloatOne / 16 the spacing stays at one unit (gradual
\* underflow).

\* significant bits of a float
MantBits == 4

\* the integer that stands for the float 1.0
FloatOne == Pow(2, MantBits + 3)

\* n / m rounded to an integer, ties to even
RoundHalfEven(n, m) ==
    LET f == n \div m
        r == n % m
    IN IF 2 * r > m \/ (2 * r = m /\ f % 2 = 1) THEN f + 1 ELSE f

\* the float nearest to n / d (n >= 0, d > 0)
FloatRound(n, d) ==
    LET e == FloorLog2(n \div d)
        quantum == IF e + 1 > MantBits THEN Pow(2, e + 1 - MantBits) ELSE 1
    IN quantum * RoundHalfEven(n, d * quantum)

\* lines 74-82 for one interior cell, every operation rounded
FloatNewCell(old, p, rho) ==
    LET n1 == FloatRound(old.cells[<<p[1] - 1, p[2]>>] + old.cells[<<p[1] + 1, p[2]>>], 1)
        n2 == FloatRound(n1 + old.cells[<<p[1], p[2] - 1>>], 1)
        neighbors == FloatRound(n2 + old.cells[<<p[1], p[2] + 1>>], 1)
        neighbor_avg == FloatRound(neighbors, 4)
        keep == FloatRound(FloatOne - rho, 1)
        own == FloatRound(old.cells[p] * keep, FloatOne)
        other == FloatRound(neighbor_avg * rho, FloatOne)
    IN FloatRound(own + other, 1)

FloatSingleUpdateArray(old, size, rho) ==
    LET blended == [old EXCEPT !.cells =
                       [p \in DOMAIN old.cells |->
                           IF p \in Interior(size) THEN FloatNewCell(old, p, rho)
                           ELSE old.cells[p]]]
    IN ApplyBoundaryConditions(blended, size)

\* one loop iteration of update() on floats
FloatUpdateOnce(st, g, r) ==
    LET c == st.ca[g]
        a1 == Alloc(st.heap)
        h1 == [st.heap EXCEPT ![a1] =
                  FloatSingleUpdateArray(st.heap[c.grid], c.grid_size, c.interaction_strength)]
        c1 == [st.ca EXCEPT ![g].grid = a1]
        h2 == Collect(c1, h1, r)
        a2 == Alloc(h2)
        h3 == [h2 EXCEPT ![a2] = h2[a1]]
        c2 == [c1 EXCEPT ![g].history = Append(@, a2)]
    IN [ca |-> c2, heap |-> h3]

\* CA2D.update(1) on a Grid of floats
FloatUpdate(g) ==
    /\ Constructed(g)
    /\ steps[g] < MaxSteps
    /\ LET st == FloatUpdateOnce([ca |-> ca, heap |-> heap], g, ret)
       IN Commit(st.ca, st.heap, ret)
    /\ steps' = [steps EXCEPT ![g] = @ + 1]
    /\ result' = NoResult
    /\ UNCHANGED <<rng, seedOf, monVars>>

\* the floats of [1/2, 1)
FloatCells == {8 * m : m \in Pow(2, MantBits - 1)..(Pow(2, MantBits) - 1)}

\* interaction strengths: the floats of [1/8, 1), and 0 and 1
FloatRhoInputs ==
    {0, FloatOne} \cup {Pow(2, k) * m : k \in 1..3, m \in Pow(2, MantBits - 1)..(Pow(2, MantBits) - 1)}

\* 3 x 3 grids: the interior cell holds a, every boundary cell holds b
FloatGridInputs ==
    {[shape |-> <<3, 3>>,
      cells |-> [p \in Cells(<<3, 3>>) |-> IF p = <<1, 1>> THEN a ELSE b]] :
        a \in FloatCells, b \in FloatCells}

\* a Grid of floats holding one of the grids, before any step
InitFloat ==
    /\ \E arr \in FloatGridInputs, rho \in FloatRhoInputs :
          /\ ca = [g \in GridIds |->
                      IF g = 1
                      THEN [grid_size |-> arr.shape, interaction_strength |-> rho,
                            grid |-> 1, history |-> <<2>>]
                      ELSE NoGrid]
          /\ heap = [a \in Addr |-> IF a \in {1, 2} THEN arr ELSE Free]
    /\ rng = 0
    /\ ret = NoRet
    /\ steps = [g \in GridIds |-> 0]
    /\ seedOf = [g \in GridIds |-> None]
    /\ result = NoResult
    /\ MonIdle

NextFloat == FloatUpdate(1)

SpecFloat == InitFloat /\ [][NextFloat]_vars

\* ---- dicp_self_audit.py: the full audit -------------------------------
\* the statuses run_theory_validation can return
TheoryStatuses == {"skipped", "passed", "failed", "timeout", "error"}

\* the statuses run_simulation_validation can return
SimulationStatuses == {"skipped", "passed", "failed", "warning", "error"}

\* the statuses run_critical_exponent_measurement can return: skipped, the
\* status of the measurement, or error
MeasurementStatuses == {"skipped", "normal", "warning", "critical", "error"}

\* "Determine overall status" of run_full_audit
OverallStatus(statuses) ==
    IF \E i \in 1..Len(statuses) : statuses[i] = "failed" THEN "failed"
    ELSE IF \E i \in 1..Len(statuses) : statuses[i] = "warning" THEN "warning"
    ELSE IF \A i \in 1..Len(statuses) : statuses[i] \in {"passed", "skipped"} THEN "passed"
    ELSE "unknown"

\* sys.exit(0 if results['overall_status'] in ['passed', 'warning'] else 1)
ExitCode(overall_status) == IF overall_status \in {"passed", "warning"} THEN 0 ELSE 1

\* main in the mode full-audit: run_full_audit, whose three components ended
\* with the given statuses, then the exit code
MainFullAudit(theory, simulation, exponent) ==
    /\ result = NoResult
    /\ LET statuses == <<theory, simulation, exponent>>
           overall_status == OverallStatus(statuses)
       IN result' = Outcome("main", "full-audit", [list |-> TRUE, arrays |-> statuses],
                            [kind |-> "dict",
                             value |-> [overall_status |-> overall_status,
                                        exit_code |-> ExitCode(overall_status)],
                             warned |-> FALSE])
    /\ UNCHANGED <<gridVars, monVars>>

NextAudit ==
    \E theory \in TheoryStatuses, simulation \in SimulationStatuses,
       exponent \in MeasurementStatuses : MainFullAudit(theory, simulation, exponent)

GridInit ==
    /\ ca = [g \in GridIds |-> NoGrid]
    /\ heap = [a \in Addr |-> Free]
    /\ rng \in 0..(RngMod - 1)
    /\ ret = NoRet
    /\ steps = [g \in GridIds |-> 0]
    /\ seedOf = [g \in GridIds |-> None]
    /\ result = NoResult

Init == GridInit /\ MonIdle

\* one Grid: construction, stepping, parameter assignment, reset
Next ==
    \/ \E size \in GridSizes, v \in RhoInputs, seed \in SeedInputs : Construct(1, size, v, seed)
    \/ \E n \in 0..MaxSteps : Update(1, n)
    \/ \E v \in RhoInputs : SetInteractionStrength(1, v)
    \/ \E seed \in SeedInputs : Reset(1, seed)

Spec == Init /\ [][Next]_vars

\* one Grid and a caller that reads states and writes into what it was handed
NextGet ==
    \/ \E size \in GridSizes, v \in RhoInputs, seed \in SeedInputs : Construct(1, size, v, seed)
    \/ \E n \in 0..MaxSteps : Update(1, n)
    \/ \E t \in TimestepInputs : GetState(1, t)
    \/ CallerWrite(<<0, 0>>, WriteValue)

SpecGet == Init /\ [][NextGet]_vars

\* two Grids that share the process-wide generator
NextTwo ==
    \/ \E g \in GridIds, size \in GridSizes, seed \in SeedInputs : Construct(g, size, RhoDen, seed)
    \/ \E g \in GridIds, n \in 1..MaxStepsTwo : steps[g] + n <= MaxStepsTwo /\ Update(g, n)
    \/ \E g \in GridIds, seed \in SeedInputs : Reset(g, seed)

SpecTwo == Init /\ [][NextTwo]_vars

\* the conductivity functions, called on a Grid and directly
NextCond ==
    \/ \E size \in GridSizes, strength \in {1, RhoDen}, seed \in SeedInputs :
          Construct(1, size, strength, seed)
    \/ \E n \in 1..MaxSteps : Update(1, n)
    \/ \E method \in MethodInputs : InformationConductivity(1, method)
    \/ \E method \in MethodInputs : GetConductivitySeries(1, method)
    \/ \E input \in CalculateInputs, method \in MethodInputs : Calculate(input, method)

SpecCond == Init /\ [][NextCond]_vars

\* grids without interior cells, and grid_size arguments that are not positive
SmallGridSizes == {<<2, 2>>, <<2, 3>>, <<3, 2>>, <<1, 3>>}

NonPositiveGridSizes == {<<0, 3>>, <<3, 0>>, <<0 - 1, 3>>}

NextSmall ==
    \/ \E size \in SmallGridSizes \cup NonPositiveGridSizes,
          strength \in {1, RhoDen}, seed \in SeedInputs :
          Construct(1, size, strength, seed)
    \/ \E n \in 1..MaxSteps : Update(1, n)
    \/ \E seed \in SeedInputs : Reset(1, seed)

SpecSmall == Init /\ [][NextSmall]_vars

\* one call of measure_critical_exponents, followed by check_alerts
NextScan ==
    \/ \E grid_size \in ScanGridSizes, iterations \in IterationInputs,
          quick_mode \in BOOLEAN, seed \in Seeds, calc_grid \in CalcGrids :
          MeasureStart(grid_size, iterations, quick_mode, seed, calc_grid)
    \/ ScanReset
    \/ ScanEquilStep
    \/ ScanMeasureStep
    \/ ScanRecord
    \/ Analyze
    \/ CheckAlerts

SpecScan == Init /\ [][NextScan]_vars

\* one run of the audit in the mode full-audit
SpecAudit == Init /\ [][NextAudit]_vars

\* the estimator applied to a scan series, and the alert check on its result
InitEstimate ==
    /\ GridIdle
    /\ scan \in ScanInputs
    /\ measurement = NoMeasurement
    /\ alerts = NoAlerts
    /\ run = [NoRun EXCEPT !.pc = "analyze"]

NextEstimate == Analyze \/ CheckAlerts

SpecEstimate == InitEstimate /\ [][NextEstimate]_vars

\* check_alerts applied to a measurement record
InitAlerts ==
    /\ GridIdle
    /\ scan = NoScan
    /\ measurement \in MeasurementInputs
    /\ alerts = NoAlerts
    /\ run = [NoRun EXCEPT !.pc = "done"]

NextAlerts == CheckAlerts

SpecAlerts == InitAlerts /\ [][NextAlerts]_vars

\* ------------------------------------------------------------- properties
\* the arrays Grid g holds: its current state and its history, by content
Contents(g) ==
    [grid |-> heap[ca[g].grid],
     history |-> [t \in 1..Len(ca[g].history) |-> heap[ca[g].history[t]]]]

ArrayInRange(arr) == \A p \in DOMAIN arr.cells : 0 <= arr.cells[p] /\ arr.cells[p] <= Unit

InRange(g) ==
    Constructed(g) =>
        /\ ArrayInRange(Contents(g).grid)
        /\ \A t \in 1..Len(ca[g].history) : ArrayInRange(Contents(g).history[t])

RhoInRange(g) == 0 <= ca[g].interaction_strength /\ ca[g].interaction_strength <= RhoDen

\* C1: a freshly initialised Grid has every cell in [0,1], and whatever is done
\* to a Grid whose interaction strength is in [0,1] and whose current state
\* and history are in [0,1] leaves them all in [0,1].
C1_CellsStayInRange ==
    /\ [](\A g \in GridIds : steps[g] = 0 => InRange(g))
    /\ [][\A g \in GridIds : (InRange(g) /\ RhoInRange(g)) => InRange(g)']_vars

C1_Witness ==
    /\ Constructed(1)
    /\ steps[1] >= 2
    /\ ca[1].interaction_strength \in 1..(RhoDen - 1)
    /\ InRange(1)
    /\ Contents(1).history[2] # Contents(1).history[1]
    /\ Contents(1).history[3] # Contents(1).history[2]

\* C2: the history of a Grid has one entry for the initial state plus one per
\* update step since __init__ / reset, and its last entry is the current state.
C2_HistoryLength ==
    \A g \in GridIds :
        Constructed(g) =>
            /\ Len(ca[g].history) = 1 + steps[g]
            /\ Contents(g).history[Len(ca[g].history)] = Contents(g).grid

C2_Witness ==
    /\ Constructed(1)
    /\ steps[1] = MaxSteps
    /\ Len(ca[1].history) = MaxSteps + 1
    /\ Contents(1).grid # Contents(1).history[1]

HistoryKept(g) ==
    /\ Len(ca'[g].history) >= Len(ca[g].history)
    /\ \A t \in 1..Len(ca[g].history) : Contents(g)'.history[t] = Contents(g).history[t]

\* C3: an update of any length and an assignment of interaction_strength keep
\* every existing history entry as it is (entry 0, the initial state, included).
C3_HistoryAppendOnly ==
    [][\A g \in GridIds :
          ((\E n \in 0..MaxSteps : Update(g, n))
              \/ (\E v \in RhoInputs : SetInteractionStrength(g, v)))
          => HistoryKept(g)]_vars

C3_Witness ==
    /\ Constructed(1)
    /\ Len(ca[1].history) = 3
    /\ ca[1].interaction_strength \notin 0..RhoDen
    /\ Contents(1).history[2] # Contents(1).history[1]
    /\ Contents(1).history[3] # Contents(1).history[2]

\* C4: a write of the caller into an array get_state returned changes neither
\* the current state nor any history entry of the Grid.
C4_GetStateReturnsCopy ==
    [][CallerWrite(<<0, 0>>, WriteValue) => Contents(1)' = Contents(1)]_vars

C4_Witness ==
    /\ Constructed(1)
    /\ ret.kind = "array"
    /\ heap[ret.addr].cells[<<0, 0>>] = WriteValue
    /\ Len(ca[1].history) >= 2
    /\ InRange(1)

\* C5: get_state(timestep) raises IndexError exactly when timestep is not in
\* 0 <= timestep < len(history), and then changes nothing of the Grid.
C5_GetStateOutOfRange ==
    [][\A t \in TimestepInputs \ {None} :
          GetState(1, t) =>
              /\ (ret'.kind = "IndexError") <=> ~(0 <= t[1] /\ t[1] < Len(ca[1].history))
              /\ (ret'.kind = "IndexError") => (ca' = ca /\ Contents(1)' = Contents(1))
              /\ (ret'.kind = "array") =>
                     heap'[ret'.addr] = Contents(1).history[t[1] + 1]]_vars

C5_Witness ==
    /\ Constructed(1)
    /\ ret.kind = "IndexError"
    /\ Len(ca[1].history) >= 2

\* C6: the interaction strength of every Grid is in [0,1] in every state.
C6_AlwaysClamped == \A g \in GridIds : Constructed(g) => RhoInRange(g)

\* C7: two Grids of the same size whose last __init__ / reset got the same
\* seed have the same initial state, whatever was done before to either.
C7_SeedDeterminesState ==
    \A g1 \in GridIds, g2 \in GridIds :
        (/\ Constructed(g1) /\ Constructed(g2)
         /\ seedOf[g1] # None /\ seedOf[g1] = seedOf[g2]
         /\ ca[g1].grid_size = ca[g2].grid_size)
        => Contents(g1).history[1] = Contents(g2).history[1]

C7_Witness ==
    /\ Constructed(1) /\ Constructed(2)
    /\ seedOf[1] # None /\ seedOf[1] = seedOf[2]
    /\ ca[1].grid_size = ca[2].grid_size
    /\ steps[1] = 0 /\ steps[2] >= 1
    /\ Contents(1).grid = Contents(2).history[1]
    /\ Contents(2).grid # Contents(2).history[1]

\* positions, in the list returned by check_alerts, of the alerts of a parameter
AlertIndices(parameter) ==
    {i \in 1..Len(alerts.list) : alerts.list[i].parameter = parameter}

\* C8: check_alerts emits an alert for a table parameter (nu, critical_point,
\* beta) if and only if |measured - reference| / tolerance is strictly greater
\* than the sigma threshold of that entry (3 for nu and critical_point, 2 for
\* beta), the alert carries the severity of the entry and the computed sigma,
\* and there is at most one alert per parameter; nu = 0.50 gives exactly one
\* critical alert for nu with sigma 16, nu = 0.341 gives no alert for nu.
C8_AlertIffSigmaExceeds ==
    alerts.checked =>
        /\ \A i \in 1..Len(alerts.list) :
              alerts.list[i].parameter \in {"nu", "critical_point", "beta"}
        /\ Cardinality(AlertIndices("nu")) =
              IF Abs(measurement.nu - 340) > 3 * 10 THEN 1 ELSE 0
        /\ Cardinality(AlertIndices("critical_point")) =
              IF Abs(measurement.critical_point - 27300) > 3 * 300 THEN 1 ELSE 0
        /\ Cardinality(AlertIndices("beta")) =
              IF Abs(measurement.beta - 370) > 2 * 20 THEN 1 ELSE 0
        /\ \A i \in AlertIndices("nu") :
              /\ alerts.list[i].severity = "critical"
              /\ alerts.list[i].value = measurement.nu
              /\ alerts.list[i].sigma_deviation.num * 10 =
                    Abs(measurement.nu - 340) * alerts.list[i].sigma_deviation.den
        /\ \A i \in AlertIndices("critical_point") :
              /\ alerts.list[i].severity = "warning"
              /\ alerts.list[i].value = measurement.critical_point
              /\ alerts.list[i].sigma_deviation.num * 300 =
                    Abs(measurement.critical_point - 27300) * alerts.list[i].sigma_deviation.den
        /\ \A i \in AlertIndices("beta") :
              /\ alerts.list[i].severity = "warning"
              /\ alerts.list[i].value = measurement.beta
              /\ alerts.list[i].sigma_deviation.num * 20 =
                    Abs(measurement.beta - 370) * alerts.list[i].sigma_deviation.den
        /\ measurement.nu = 500 =>
              \E i \in AlertIndices("nu") :
                  alerts.list[i].sigma_deviation.num = 16 * alerts.list[i].sigma_deviation.den
        /\ measurement.nu = 341 => AlertIndices("nu") = {}

\* nu = 0.50 checked together with a beta exactly two sigma off and a critical
\* point exactly three sigma off: the only alert is the critical one for nu
C8_Witness ==
    /\ alerts.checked
    /\ measurement.nu = 500
    /\ measurement.beta = 410
    /\ measurement.critical_point = 28200
    /\ Len(alerts.list) = 1
    /\ alerts.list[1].parameter = "nu"
    /\ alerts.list[1].severity = "critical"

\* C9: the status of an estimate is 'critical' if the deviation of nu or of the
\* critical point, in units of its reference error (0.01, 0.0001), exceeds 3,
\* otherwise 'warning' if either exceeds 2, otherwise 'normal'; it is always one
\* of the three and is a function of nu and the critical point alone.
C9_StatusRule ==
    measurement # NoMeasurement =>
        LET nu_dev == Abs(measurement.nu - 340)
            pc_dev == Abs(measurement.critical_point - 27300)
            crit == nu_dev > 3 * 10 \/ pc_dev > 3 * 300
            warn == nu_dev > 2 * 10 \/ pc_dev > 2 * 300
        IN /\ measurement.status \in {"critical", "warning", "normal"}
           /\ measurement.status = "critical" <=> crit
           /\ measurement.status = "warning" <=> (~crit /\ warn)
           /\ measurement.status = "normal" <=> (~crit /\ ~warn)

\* an estimate that is 'warning' through its critical point alone, nu being
\* the default, with a beta that came out of the regression at its upper clamp
C9_Witness ==
    /\ measurement # NoMeasurement
    /\ measurement.status = "warning"
    /\ measurement.nu = 340
    /\ Abs(measurement.critical_point - 27300) > 2 * 300
    /\ measurement.beta # 370

\* C10: the critical point of an estimate is p_values[k] for the first index k
\* at which the conductivity series attains its maximum; it is one of the
\* scanned values and lies between the first and the last of them.
C10_CriticalPointIsFirstMax ==
    measurement # NoMeasurement =>
        LET p == scan.p_values
            c == scan.conductivities
        IN /\ \E k \in DOMAIN p :
                 /\ measurement.critical_point = p[k]
                 /\ \A j \in DOMAIN c : c[j] <= c[k]
                 /\ \A j \in DOMAIN c : j < k => c[j] < c[k]
           /\ p[0] <= measurement.critical_point
           /\ measurement.critical_point <= p[ArrLen(p) - 1]

\* the maximum is attained twice, first at an inner index
C10_Witness ==
    /\ measurement # NoMeasurement
    /\ \E k \in DOMAIN scan.p_values :
          /\ k > 0
          /\ measurement.critical_point = scan.p_values[k]
          /\ \E j \in DOMAIN scan.conductivities :
                j > k /\ scan.conductivities[j] = scan.conductivities[k]
          /\ \A j \in DOMAIN scan.conductivities :
                scan.conductivities[j] <= scan.conductivities[k]

\* C11: for every scan series and grid size the nu of the estimate lies in
\* [0.1, 1.0]: a clamped value, or the fallback 0.34.
C11_NuWithinClamp ==
    measurement # NoMeasurement =>
        /\ 100 <= measurement.nu
        /\ measurement.nu <= 1000

\* a half-width of 0.9 on a coarse scan: the quotient (0.04) is below the clamp
C11_Witness ==
    /\ measurement # NoMeasurement
    /\ scan.p_values[ArrLen(scan.p_values) - 1] = 2700000
    /\ scan.conductivities = [i \in 0..2 |-> <<1, 2, 1>>[i + 1]]
    /\ measurement.nu = 100

\* the conductivity calls: directly, and through the two CA2D methods
CondOps ==
    {"calculate_information_conductivity", "information_conductivity",
     "get_conductivity_series"}

\* the tag the dispatch receives (get_conductivity_series turns simple into
\* temporal)
DispatchedMethod ==
    IF result.op = "get_conductivity_series" /\ result.method = "simple"
    THEN "temporal" ELSE result.method

\* C13: the entropy conductivity of a single-valued (constant) grid is 0.0.
C13_ConstantGridEntropyZero ==
    (/\ result.op = "calculate_information_conductivity"
     /\ result.method = "entropy"
     /\ ~result.arg.list
     /\ MinCell(result.arg.arrays[1]) = MaxCell(result.arg.arrays[1]))
        => (result.kind = "float" /\ result.value = 0)

\* C14: for every grid state with cells in [0,1] the entropy conductivity lies
\* in [0,1] (0 to 1000 thousandths); in particular it is never negative.
C14_EntropyInUnitInterval ==
    (result.op \in CondOps /\ result.method = "entropy")
        => /\ result.kind = "float" => (0 <= result.value /\ result.value <= 1000)
           /\ result.kind = "array" =>
                 \A i \in 1..Len(result.value) :
                     0 <= result.value[i] /\ result.value[i] <= 1000

\* C15: the simple conductivity is the arithmetic mean of all cells (here
\* rounded down to a multiple of 1/Unit): 1.0 for an all-ones grid, 0.0 for an
\* all-zeros grid, 0.5 for a grid filled with 0.5, and within [0,1] for every
\* state with cells in [0,1].
C15_SimpleIsMean ==
    (/\ result.op \in {"calculate_information_conductivity", "information_conductivity"}
     /\ result.method = "simple"
     /\ ~result.arg.list)
        => LET arr == result.arg.arrays[1]
               v == result.value
           IN /\ result.kind = "float"
              /\ Size(arr) * v <= SumCells(arr)
              /\ SumCells(arr) < Size(arr) * (v + 1)
              /\ 0 <= v /\ v <= Unit
              /\ (\A p \in DOMAIN arr.cells : arr.cells[p] = Unit) => v = Unit
              /\ (\A p \in DOMAIN arr.cells : arr.cells[p] = 0) => v = 0
              /\ (\A p \in DOMAIN arr.cells : arr.cells[p] = Unit \div 2) => v = Unit \div 2

\* the simple conductivity of the array of alternating 0.0 and 1.0: 4/9
C15_Witness ==
    /\ result.op = "calculate_information_conductivity"
    /\ result.method = "simple"
    /\ result.arg = [list |-> FALSE, arrays |-> <<BinaryGrid>>]
    /\ result.kind = "float"
    /\ result.value = (4 * Unit) \div 9

\* C16: a conductivity dispatch on a tag that is not one of simple, entropy,
\* gradient, temporal, multiscale raises ValueError and returns no value.
C16_UnknownMethodRaises ==
    (result.op \in CondOps
        /\ DispatchedMethod \notin {"simple", "entropy", "gradient", "temporal", "multiscale"})
        => (result.kind = "ValueError" /\ result.value = 0)

\* the tag of test_invalid_method on an array, and on the history of a Grid
C16_Witness ==
    /\ result.method = "invalid_method"
    /\ result.kind = "ValueError"
    /\ \/ result.op = "calculate_information_conductivity" /\ ~result.arg.list
       \/ result.op = "get_conductivity_series" /\ steps[1] > 0

C20_ShortHistoryDegrades ==
    (/\ result.op \in CondOps
     /\ DispatchedMethod = "temporal"
     /\ result.arg.list
     /\ Len(result.arg.arrays) < 2)
        => /\ result.kind = "array"
           /\ Len(result.value) = 1
           /\ result.warned

\* C17: constructing a Grid with a height or width that is zero or negative
\* fails with an error and yields no Grid.
C17_NonPositiveSizeRejected ==
    \A g \in GridIds :
        Constructed(g) => (ca[g].grid_size[1] > 0 /\ ca[g].grid_size[2] > 0)

\* C18: on a grid with H < 3 or W < 3 an update step does not index out of
\* bounds and leaves the cell values as they were: the current state equals
\* the state the Grid was (re)initialised with, whatever the number of steps.
C18_SmallGridStepIsNoOp ==
    \A g \in GridIds :
        (/\ Constructed(g)
         /\ ca[g].grid_size[1] > 0 /\ ca[g].grid_size[2] > 0
         /\ (ca[g].grid_size[1] < 3 \/ ca[g].grid_size[2] < 3))
            => /\ ~(result.op = "update" /\ result.kind = "IndexError")
               /\ heap[ca[g].grid].cells = heap[ca[g].history[1]].cells

\* C12: the three arrays of one scan are aligned: while the scan runs the
\* conductivities and the susceptibilities both have one entry per parameter
\* value scanned so far, and when they are handed to the estimator all three
\* have the length of p_values (13, or 7 in quick mode) and p is non-decreasing.
C12_ScanArraysAligned ==
    run.pc \in {"reset", "equil", "measure", "record", "analyze", "done"} =>
        /\ ArrLen(scan.conductivities) = run.k
        /\ ArrLen(scan.susceptibilities) = run.k
        /\ run.k <= ArrLen(scan.p_values)
        /\ ArrLen(scan.p_values) = (IF run.quick_mode THEN 7 ELSE 13)
        /\ run.pc \in {"analyze", "done"} =>
              /\ run.k = ArrLen(scan.p_values)
              /\ \A i \in 0..(ArrLen(scan.p_values) - 2) :
                    scan.p_values[i] <= scan.p_values[i + 1]

\* a whole scan with one measurement step per value has reached the estimator
C12_Witness ==
    /\ run.pc = "done"
    /\ run.iterations = 1
    /\ ArrLen(scan.p_values) = 13
    /\ ArrLen(scan.conductivities) = 13
    /\ ArrLen(scan.susceptibilities) = 13

\* C21: quick_mode only reduces the sample count: in a quick scan the
\* iteration budget is half the requested one (at least 1) and the scanned
\* parameter values are those of a standard scan.
C21_QuickModeOnlyHalves ==
    (run.pc # "idle" /\ run.quick_mode) =>
        /\ scan.p_values = ScanPValues(FALSE)
        /\ run.iterations = (IF run.requested \div 2 < 1 THEN 1 ELSE run.requested \div 2)

\* C22: one update step yields the reference result: every interior cell is
\* old*(1-rho) + rho*mean of its four neighbours, all read from the pre-step
\* state, and every boundary cell, corners included, equals the new value of
\* its nearest interior cell, so that row 0 = row 1, row H-1 = row H-2,
\* column 0 = column 1 and column W-1 = column W-2 in the new state.
C22_StepIsReference ==
    [][\A g \in GridIds :
          (Constructed(g) /\ steps'[g] = steps[g] + 1) =>
              LET old == heap[ca[g].grid]
                  new == heap'[ca'[g].grid]
                  h == ca[g].grid_size[1]
                  w == ca[g].grid_size[2]
                  rho == ca[g].interaction_strength
                  near(x, n) == IF x < 1 THEN 1 ELSE IF x > n - 2 THEN n - 2 ELSE x
              IN /\ \A p \in Interior(ca[g].grid_size) :
                       4 * RhoDen * new.cells[p] =
                           4 * (RhoDen - rho) * old.cells[p]
                           + rho * (old.cells[<<p[1] - 1, p[2]>>] + old.cells[<<p[1] + 1, p[2]>>]
                                    + old.cells[<<p[1], p[2] - 1>>] + old.cells[<<p[1], p[2] + 1>>])
                 /\ \A p \in DOMAIN new.cells :
                       new.cells[p] = new.cells[<<near(p[1], h), near(p[2], w)>>]
                 /\ \A j \in 0..(w - 1) :
                       /\ new.cells[<<0, j>>] = new.cells[<<1, j>>]
                       /\ new.cells[<<h - 1, j>>] = new.cells[<<h - 2, j>>]
                 /\ \A i \in 0..(h - 1) :
                       /\ new.cells[<<i, 0>>] = new.cells[<<i, 1>>]
                       /\ new.cells[<<i, w - 1>>] = new.cells[<<i, w - 2>>]]_vars

\* one step was made on a 3 x 4 grid whose two interior cells differed and
\* whose corner differed from its nearest interior cell before the step
C22_Witness ==
    /\ Constructed(1)
    /\ steps[1] = 1
    /\ ca[1].grid_size = <<3, 4>>
    /\ ca[1].interaction_strength \in 1..RhoDen
    /\ Contents(1).history[1].cells[<<1, 1>>] # Contents(1).history[1].cells[<<1, 2>>]
    /\ Contents(1).history[1].cells[<<0, 3>>] # Contents(1).history[1].cells[<<1, 2>>]
    /\ Contents(1).grid.cells[<<0, 3>>] = Contents(1).grid.cells[<<1, 2>>]

\* C23: during a scan every conductivity sample recorded at a measurement
\* step is the entropy conductivity of the Grid's current state, the one the
\* step just executed has produced.
C23_SampleOfCurrentState ==
    [][(run.pc = "measure" /\ run'.done = run.done + 1) =>
          run'.conductivity_sum =
              run.conductivity_sum + EntropyConductivity(heap'[ca'[1].grid])]_vars

\* C24: for each scanned value p, in increasing order, the scanner resets the
\* Grid to a fresh random state with interaction_strength = p (nothing of the
\* previous value is left in the Grid), then makes exactly iterations // 2
\* unrecorded equilibration steps, then exactly iterations - iterations // 2
\* measurement steps, each adding one conductivity and one activity sample.
C24_ScanProcedure ==
    /\ [](run.pc \in {"equil", "measure", "record"} =>
            LET equil == run.iterations \div 2
                meas == run.iterations - run.iterations \div 2
            IN /\ ca[1].interaction_strength = scan.p_values[run.k]
               /\ Len(ca[1].history) = 1 + steps[1]
               /\ run.pc = "equil" =>
                     /\ run.done < equil
                     /\ steps[1] = run.done
                     /\ run.activity_values = <<>>
                     /\ run.conductivity_sum = 0
               /\ run.pc = "measure" =>
                     /\ run.done < meas
                     /\ steps[1] = equil + run.done
                     /\ Len(run.activity_values) = run.done
               /\ run.pc = "record" =>
                     /\ steps[1] = (IF meas = 0 THEN 0 ELSE run.iterations)
                     /\ Len(run.activity_values) = meas)
    /\ [][/\ run.pc = "reset" =>
              /\ run'.k = run.k
              /\ steps'[1] = 0
              /\ Len(ca'[1].history) = 1
              /\ heap'[ca'[1].grid] = RandomArray(ca[1].grid_size, rng)
              /\ heap'[ca'[1].history[1]] = heap'[ca'[1].grid]
              /\ ca'[1].interaction_strength = scan.p_values[run.k]
          /\ run.pc = "measure" =>
              /\ Len(run'.activity_values) = Len(run.activity_values) + 1
              /\ steps'[1] = steps[1] + 1
          /\ run.pc = "equil" =>
              /\ run'.activity_values = run.activity_values
              /\ run'.conductivity_sum = run.conductivity_sum
              /\ scan' = scan
              /\ steps'[1] = steps[1] + 1
          /\ (run.pc = "record" /\ run'.pc # "raised") =>
              /\ run'.k = run.k + 1
              /\ scan.p_values[run.k] >= (IF run.k = 0 THEN 0 ELSE scan.p_values[run.k - 1])]_vars

\* the second parameter value of a scan with three iterations has had its one
\* equilibration step and its two measurement steps
C24_Witness ==
    /\ run.pc = "record"
    /\ run.k = 1
    /\ run.iterations = 3
    /\ steps[1] = 3
    /\ Len(run.activity_values) = 2

\* C25: the nu of an estimate uses peak_width = p[r] - p[l], l the largest
\* index below the peak and r the largest index at or after the peak whose
\* conductivity is at least half the peak conductivity; nu is the fallback
\* 0.34 when there is no such l or no such r or the width is not positive (in
\* particular when the peak is the first scan point), and is computed from
\* the width and the grid size otherwise.
C25_NuFromHalfWidth ==
    measurement # NoMeasurement =>
        LET c == scan.conductivities
            p == scan.p_values
            peak == CHOOSE i \in DOMAIN c :
                        /\ \A j \in DOMAIN c : c[j] <= c[i]
                        /\ \A j \in DOMAIN c : c[j] = c[i] => i <= j
            below == {i \in DOMAIN c : i < peak /\ 2 * c[i] >= c[peak]}
            after == {i \in DOMAIN c : i >= peak /\ 2 * c[i] >= c[peak]}
            l == CHOOSE i \in below : \A j \in below : j <= i
            r == CHOOSE i \in after : \A j \in after : j <= i
        IN /\ (below = {} \/ after = {}) => measurement.nu = 340
           /\ (below # {} /\ after # {} /\ p[r] - p[l] <= 0) => measurement.nu = 340
           /\ (below # {} /\ after # {} /\ p[r] - p[l] > 0) =>
                 measurement.nu = NuFromWidth(p[r] - p[l], measurement.grid_size)
           /\ peak = 0 => measurement.nu = 340

\* a coarse scan whose peak is the last point and whose left half-width point
\* is the point before it: nu is computed (0.47), not a clamp or the fallback
C25_Witness ==
    /\ measurement # NoMeasurement
    /\ scan.p_values[ArrLen(scan.p_values) - 1] = 840000
    /\ scan.conductivities = [i \in 0..2 |-> <<1, 1, 2>>[i + 1]]
    /\ measurement.grid_size = 16
    /\ measurement.nu \notin {100, 340, 1000}

\* C26: the beta of an estimate is obtained by regression exactly when the
\* 5-point window of susceptibilities centred on the peak (clipped to the array
\* bounds) holds at least 3 points with susceptibility > 0, wherever the peak
\* lies and whatever the scan length; in every other case beta is the default
\* 0.37; a regressed beta lies in [0.1, 1.0].
C26_BetaFromWindow ==
    measurement # NoMeasurement =>
        LET c == scan.conductivities
            chi == scan.susceptibilities
            peak == CHOOSE i \in DOMAIN c :
                        /\ \A j \in DOMAIN c : c[j] <= c[i]
                        /\ \A j \in DOMAIN c : c[j] = c[i] => i <= j
            window == {i \in DOMAIN chi : peak - 2 <= i /\ i <= peak + 2}
            positive == {i \in window : chi[i] > 0}
        IN /\ 100 <= measurement.beta /\ measurement.beta <= 1000
           /\ IF Cardinality(positive) >= 3
              THEN measurement.beta =
                       BetaFromFit(scan.p_values, chi, scan.p_values[peak], positive)
              ELSE measurement.beta = 370

\* C27: status and alerts agree: for every measurement of the estimator the
\* status is 'critical' if and only if check_alerts emits an alert for nu or
\* for critical_point; with status 'normal' or 'warning' the only alert that
\* can be emitted is the one for beta.
C27_StatusAgreesWithAlerts ==
    alerts.checked =>
        /\ measurement.status = "critical" <=>
              (AlertIndices("nu") # {} \/ AlertIndices("critical_point") # {})
        /\ measurement.status \in {"normal", "warning"} =>
              \A i \in 1..Len(alerts.list) : alerts.list[i].parameter = "beta"

\* a 'warning' estimate (critical point between two and three reference
\* errors off) whose only alert is the one for beta
C27_Witness ==
    /\ alerts.checked
    /\ run.pc = "done"
    /\ scan # NoScan
    /\ measurement.status = "warning"
    /\ Len(alerts.list) = 1
    /\ alerts.list[1].parameter = "beta"

\* C28: an update step never widens the value range of the grid: for a grid
\* with H, W >= 3 and an interaction strength in [0, 1] the maximum after the
\* step is <= the maximum before it and the minimum after is >= the minimum
\* before it; a constant grid is a fixed point of the step.
C28_RangeNeverWidens ==
    [][\A g \in GridIds :
          (/\ Constructed(g)
           /\ steps'[g] = steps[g] + 1
           /\ ca[g].grid_size[1] >= 3 /\ ca[g].grid_size[2] >= 3
           /\ 0 <= ca[g].interaction_strength /\ ca[g].interaction_strength <= FloatOne) =>
              LET old == heap[ca[g].grid]
                  new == heap'[ca'[g].grid]
              IN /\ MaxCell(new) <= MaxCell(old)
                 /\ MinCell(new) >= MinCell(old)
                 /\ MinCell(old) = MaxCell(old) => new = old]_vars

\* C29: a measurement taken in quick mode never has status 'normal': each of
\* the 7 evenly spaced values of [0.008, 0.012] is more than 2 reference
\* errors (0.0002) away from the reference critical point 0.0091, so the status
\* is 'warning' or 'critical' whatever the simulation produces.
C29_QuickModeNeverNormal ==
    (run.quick_mode /\ run.pc # "idle") =>
        /\ ArrLen(scan.p_values) = 7
        /\ scan.p_values[0] = 24000 /\ scan.p_values[6] = 36000
        /\ \A i \in DOMAIN scan.p_values : Abs(scan.p_values[i] - 27300) > 2 * 300
        /\ measurement # NoMeasurement => measurement.status \in {"warning", "critical"}

\* a quick scan has been analysed
C29_Witness ==
    /\ run.quick_mode
    /\ run.pc = "done"
    /\ measurement # NoMeasurement
    /\ measurement.status \in {"warning", "critical"}
    /\ \E i \in DOMAIN scan.p_values : measurement.critical_point = scan.p_values[i]

\* C30: the full audit reports overall_status 'passed' (and exits with code 0)
\* whenever theory validation passed, simulation validation passed and the
\* measurement completed with status 'normal'; overall_status is 'unknown'
\* only when some component ended in an error or a timeout.
C30_AuditPassesWhenAllFine ==
    result.op = "main" =>
        LET statuses == result.arg.arrays
        IN /\ statuses = <<"passed", "passed", "normal">> =>
                 /\ result.value.overall_status = "passed"
                 /\ result.value.exit_code = 0
           /\ result.value.overall_status = "unknown" =>
                 \E i \in 1..3 : statuses[i] \in {"error", "timeout"}

====
